---- MODULE Spec2Model ----
(***************************************************************************)
(* Model of the Xray client of src/xray.ts (class Xray): construction,     *)
(* updateTestExecKey, createSearchParams, updateTestExecJson, auth and     *)
(* import.  The asynchronous methods are split at their await: the part    *)
(* before the await is one step, the continuation after it another.        *)
(*                                                                         *)
(* JavaScript strings are TLA+ strings; the value `undefined` is the       *)
(* distinguished string Undefined.  Template strings and endpoints are     *)
(* sequences of string pieces, concatenated with \o.                       *)
(***************************************************************************)
EXTENDS Naturals, Sequences, FiniteSets, TLC

VARIABLES
    xrayOptions,        \* constructor argument: deployment configuration
    xrayImportOptions,  \* constructor argument: the import context (mutable)
    heap,               \* the URLSearchParams objects, by identity
    searchParams,       \* this.searchParams: a reference into heap
    gotClient,          \* this.gotClient: prefixUrl, credentials, default headers
    secrets,            \* values passed to core.setSecret
    warnings,           \* messages passed to core.warning
    authCall,           \* the auth() call suspended on its request, if any
    authResult,         \* outcome of the last auth() call that finished
    authToken,          \* token of the last auth() call that succeeded in cloud mode
    importCall,         \* the import() call suspended on its request, if any
    importResult,       \* outcome of the last import() call that finished
    nUpdates,           \* calls made so far, per operation
    nAuths,
    nImports,
    nMerges,
    suppliedJson,       \* the descriptor as the caller supplied it to the constructor
    firstMerge          \* the descriptor as the first updateTestExecJson left it

vars == <<xrayOptions, xrayImportOptions, heap, searchParams, gotClient, secrets,
          warnings, authCall, authResult, authToken, importCall, importResult,
          nUpdates, nAuths, nImports, nMerges, suppliedJson, firstMerge>>

\* ------------------------------------------------------------------ bounds
MaxUpdates == 2
MaxAuths == 2
MaxImports == 2
MaxMerges == 2

\* ------------------------------------------------------------------ values
Undefined == "<undefined>"

\* JavaScript truthiness of a string-or-undefined value
Truthy(v) == v # Undefined /\ v # ""

\* `${v}` in a template string
Interpolate(v) == IF v = "" THEN <<>> ELSE IF v = Undefined THEN <<"undefined">> ELSE <<v>>

OptionNames == <<"testExecKey", "testPlanKey", "testEnvironments", "revision", "fixVersion">>

\* The descriptor (testExecutionJson): which nested objects exist, the value of
\* fields.project.key, and the members of xrayFields.
NoXrayFields == [n \in {OptionNames[i] : i \in 1..Len(OptionNames)} |-> Undefined]

Descriptor(present, hasFields, hasProject, key, hasXrayFields, xf) ==
    [present |-> present, hasFields |-> hasFields, hasProject |-> hasProject,
     key |-> key, hasXrayFields |-> hasXrayFields, xrayFields |-> xf]

NoDescriptor == Descriptor(FALSE, FALSE, FALSE, Undefined, FALSE, NoXrayFields)

\* ------------------------------------------------- createSearchParams
\* new URLSearchParams(elements): each [name, value] pair becomes one entry,
\* in the order given
URLSearchParams(elements) ==
    [i \in 1..Len(elements) |-> [name |-> elements[i][1], value |-> elements[i][2]]]

\* the same build with the testPlanKey guard testing for undefined only
SearchParamsUndefinedGuard(opts) ==
    URLSearchParams(
        << <<"projectKey", opts.projectKey>> >>
        \o (IF Truthy(opts.testExecKey) THEN << <<"testExecKey", opts.testExecKey>> >> ELSE <<>>)
        \o (IF opts.testPlanKey # Undefined THEN << <<"testPlanKey", opts.testPlanKey>> >> ELSE <<>>)
        \o (IF Truthy(opts.testEnvironments)
               THEN << <<"testEnvironments", opts.testEnvironments>> >> ELSE <<>>)
        \o (IF Truthy(opts.revision) THEN << <<"revision", opts.revision>> >> ELSE <<>>)
        \o (IF Truthy(opts.fixVersion) THEN << <<"fixVersion", opts.fixVersion>> >> ELSE <<>>))

\* the value createSearchParams stores: elements, then new URLSearchParams(elements)
BuildSearchParams(opts) ==
    URLSearchParams(
        << <<"projectKey", opts.projectKey>> >>
        \o (IF Truthy(opts.testExecKey) THEN << <<"testExecKey", opts.testExecKey>> >> ELSE <<>>)
        \o (IF Truthy(opts.testPlanKey) THEN << <<"testPlanKey", opts.testPlanKey>> >> ELSE <<>>)
        \o (IF Truthy(opts.testEnvironments)
               THEN << <<"testEnvironments", opts.testEnvironments>> >> ELSE <<>>)
        \o (IF Truthy(opts.revision) THEN << <<"revision", opts.revision>> >> ELSE <<>>)
        \o (IF Truthy(opts.fixVersion) THEN << <<"fixVersion", opts.fixVersion>> >> ELSE <<>>))

\* ------------------------------------------------- updateTestExecJson
SetXrayField(opts, d, n) ==
    IF Truthy(opts[n]) THEN [d EXCEPT !.xrayFields[n] = opts[n]] ELSE d

MergeXrayFields(opts, d) ==
    LET d0 == IF ~d.hasXrayFields
                 THEN [d EXCEPT !.hasXrayFields = TRUE, !.xrayFields = NoXrayFields]
                 ELSE d
        d1 == SetXrayField(opts, d0, "testExecKey")
        d2 == SetXrayField(opts, d1, "testPlanKey")
        d3 == SetXrayField(opts, d2, "testEnvironments")
        d4 == SetXrayField(opts, d3, "revision")
    IN  SetXrayField(opts, d4, "fixVersion")

EnsureFields(d) ==
    IF ~d.hasFields
       THEN [d EXCEPT !.hasFields = TRUE, !.hasProject = FALSE, !.key = Undefined]
       ELSE d

EnsureProject(d) ==
    IF ~d.hasProject THEN [d EXCEPT !.hasProject = TRUE, !.key = Undefined] ELSE d

\* the merge keeping a project key the caller supplied
UpdateTestExecJsonKeepsKey(opts, d) ==
    LET d2 == EnsureProject(EnsureFields(d))
        d3 == IF Truthy(d2.key) THEN d2 ELSE [d2 EXCEPT !.key = opts.projectKey]
    IN  MergeXrayFields(opts, d3)

\* the merge with the key assignment in the else branch of the project guard
UpdateTestExecJsonKeyInElse(opts, d) ==
    LET d1 == EnsureFields(d)
        d3 == IF ~d1.hasProject
                 THEN [d1 EXCEPT !.hasProject = TRUE, !.key = Undefined]
                 ELSE [d1 EXCEPT !.key = opts.projectKey]
    IN  MergeXrayFields(opts, d3)

\* updateTestExecJson(testExecutionJson): the object as the call leaves it
UpdateTestExecJson(opts, d) ==
    LET d2 == EnsureProject(EnsureFields(d))
        d3 == [d2 EXCEPT !.key = opts.projectKey]
    IN  MergeXrayFields(opts, d3)

\* JSON.stringify(descriptor): the members present, as path/value pairs
JSONstringify(d) ==
    (IF d.hasFields THEN {<<"fields", "{}">>} ELSE {})
    \cup (IF d.hasProject THEN {<<"fields.project", "{}">>} ELSE {})
    \cup (IF d.key # Undefined THEN {<<"fields.project.key", d.key>>} ELSE {})
    \cup (IF d.hasXrayFields THEN {<<"xrayFields", "{}">>} ELSE {})
    \cup {<<n, d.xrayFields[n]>> : n \in {m \in DOMAIN d.xrayFields : d.xrayFields[m] # Undefined}}

\* ------------------------------------------------- import: pure parts
\* the format without mapping "xray" to the empty sub-path
FormatSubpathUnmapped(opts) == opts.testFormat

\* let format = testFormat; if (format === 'xray') format = ''
FormatSubpath(opts) == IF opts.testFormat = "xray" THEN "" ELSE opts.testFormat

\* the branch condition with the testExecKey test dropped
UseMultipartDescriptorOnly(opts) == opts.testExecutionJson.present

\* if (testExecutionJson && !testExecKey)
UseMultipart(opts) == opts.testExecutionJson.present /\ ~Truthy(opts.testExecKey)

MultipartEndpoint(format) == <<"/import/execution/">> \o Interpolate(format) \o <<"/multipart">>

RawEndpoint(format) == <<"/import/execution/">> \o Interpolate(format)

\* ------------------------------------------------- the client's state
DefaultTimeout == 30000
ImportTimeout == 60000
RetryCount == 2

xrayProtocol == "https"

\* identities of URLSearchParams objects; an object nothing refers to is NoObject
ObjIds == {"o1", "o2", "o3"}
NoObject == <<>>
NoRef == "none"

\* the references a suspended request holds
InFlightRefs == IF importCall.state = "pending" /\ importCall.searchParams # NoRef
                   THEN {importCall.searchParams} ELSE {}

\* the build storing into the object this.searchParams already refers to
ReuseRef(current, inUse) == current

\* new URLSearchParams(...): an object distinct from every object still referred to
AllocRef(current, inUse) == CHOOSE o \in ObjIds : o # current /\ o \notin inUse

\* createSearchParams(): this.searchParams becomes a new object built from opts
CreateSearchParams(opts) ==
    LET ref == AllocRef(searchParams, InFlightRefs)
    IN  /\ searchParams' = ref
        /\ heap' = [o \in ObjIds |->
                      IF o = ref THEN BuildSearchParams(opts)
                      ELSE IF o \in InFlightRefs THEN heap[o]
                      ELSE NoObject]

\* the constructor's gotClient: got.extend(defaults), then server or cloud
NewGotClient(xo) ==
    IF xo.xrayServer
       THEN [prefixUrl |-> <<xrayProtocol, "://">> \o Interpolate(xo.xrayBaseUrl)
                           \o <<"/rest/raven/1.0">>,
             username |-> xo.username, password |-> xo.password,
             Authorization |-> <<>>, responseType |-> "json",
             timeout |-> DefaultTimeout, retry |-> RetryCount, http2 |-> TRUE]
       ELSE [prefixUrl |-> <<xrayProtocol, "://xray.cloud.xpand-it.com/api/v1">>,
             username |-> Undefined, password |-> Undefined,
             Authorization |-> <<>>, responseType |-> "json",
             timeout |-> DefaultTimeout, retry |-> RetryCount, http2 |-> TRUE]

IdleAuth == [state |-> "idle", method |-> "", url |-> <<>>, json |-> <<>>]

IdleImport ==
    [state |-> "idle", path |-> "", endpoint |-> <<>>, searchParams |-> NoRef,
     contentType |-> "", body |-> "", info |-> {}, results |-> "", testInfo |-> {},
     timeout |-> DefaultTimeout, Authorization |-> <<>>,
     username |-> Undefined, password |-> Undefined,
     \* what held when the call began
     seenOptions |-> [testExecKey |-> Undefined, descriptor |-> FALSE,
                      testFormat |-> ""],
     seenParams |-> NoObject, seenAuth |-> "none", seenToken |-> Undefined]

NoResult == [kind |-> "none", value |-> Undefined, path |-> "",
             body |-> [isNull |-> FALSE, hasKey |-> FALSE, key |-> Undefined]]

\* ------------------------------------------------- inputs
ProjectKeys == {"PRJ", "ACME"}
OptValues == {Undefined, "", "v1"}
ExecKeys == {"", "EXEC-1", "EXEC-2"}
Formats == {"xray", "junit"}
Tokens == {"abc123", "tok2"}
Data == {"<testsuite/>"}

StaleXrayFields == [NoXrayFields EXCEPT !["testExecKey"] = "OLD-9", !["revision"] = "r0"]

\* caller-supplied descriptors: fields, fields.project, fields.project.key and
\* xrayFields each present or absent
Descriptors ==
    {Descriptor(TRUE, f[1], f[2], f[3], x[1], x[2]) :
        f \in {<<FALSE, FALSE, Undefined>>, <<TRUE, FALSE, Undefined>>,
               <<TRUE, TRUE, Undefined>>, <<TRUE, TRUE, "OTHER">>, <<TRUE, TRUE, "PRJ">>},
        x \in {<<FALSE, NoXrayFields>>, <<TRUE, NoXrayFields>>, <<TRUE, StaleXrayFields>>}}

\* response bodies as got parsed them: {"key": k}, {"id": 7}, null
Bodies ==
    {[isNull |-> FALSE, hasKey |-> TRUE, key |-> "EXEC-123"],
     [isNull |-> FALSE, hasKey |-> FALSE, key |-> Undefined],
     [isNull |-> TRUE, hasKey |-> FALSE, key |-> Undefined]}

Options(pk, ek, pl, env, rev, fix, fmt, json) ==
    [projectKey |-> pk, testExecKey |-> ek, testPlanKey |-> pl, testEnvironments |-> env,
     revision |-> rev, fixVersion |-> fix, testFormat |-> fmt, testExecutionJson |-> json]

\* ------------------------------------------------- constructor
\* the state new Xray(xo, io) leaves
Constructed(xo, io) ==
    /\ xrayOptions = xo
    /\ xrayImportOptions = io
    /\ gotClient = NewGotClient(xo)
    /\ searchParams = "o1"
    /\ heap = [o \in ObjIds |-> IF o = "o1" THEN BuildSearchParams(io) ELSE NoObject]
    /\ secrets = {}
    /\ warnings = {}
    /\ authCall = IdleAuth
    /\ authResult = "none"
    /\ authToken = Undefined
    /\ importCall = IdleImport
    /\ importResult = NoResult
    /\ nUpdates = 0 /\ nAuths = 0 /\ nImports = 0 /\ nMerges = 0
    /\ suppliedJson = io.testExecutionJson
    /\ firstMerge = io.testExecutionJson

Deployments ==
    [xrayServer : BOOLEAN, xrayBaseUrl : {"jira.example.org"},
     username : {"user"}, password : {"pw"}]

Init ==
    \E xo \in Deployments, ek \in OptValues, fmt \in Formats,
       json \in {NoDescriptor,
                 Descriptor(TRUE, FALSE, FALSE, Undefined, FALSE, NoXrayFields),
                 Descriptor(TRUE, TRUE, TRUE, "OTHER", TRUE, StaleXrayFields)} :
        Constructed(xo, Options("PRJ", ek, "v1", Undefined, "v1", "", fmt, json))

\* ------------------------------------------------- updateTestExecKey
\* the setter without the rebuild
UpdateTestExecKeyNoRebuild(testExecKey) ==
    /\ nUpdates < MaxUpdates
    /\ xrayImportOptions' = [xrayImportOptions EXCEPT !.testExecKey = testExecKey]
    /\ nUpdates' = nUpdates + 1
    /\ UNCHANGED <<xrayOptions, heap, searchParams, gotClient, secrets, warnings, authCall,
                   authResult, authToken, importCall, importResult, nAuths, nImports,
                   nMerges, suppliedJson, firstMerge>>

UpdateTestExecKey(testExecKey) ==
    /\ nUpdates < MaxUpdates
    /\ xrayImportOptions' = [xrayImportOptions EXCEPT !.testExecKey = testExecKey]
    /\ CreateSearchParams(xrayImportOptions')
    /\ nUpdates' = nUpdates + 1
    /\ UNCHANGED <<xrayOptions, gotClient, secrets, warnings, authCall, authResult,
                   authToken, importCall, importResult, nAuths, nImports, nMerges,
                   suppliedJson, firstMerge>>

\* ------------------------------------------------- auth
\* the request auth() awaits: GET /api/2/myself (server) or POST /authenticate (cloud)
AuthRequest(xo, client) ==
    IF xo.xrayServer
       THEN [state |-> "pending", method |-> "GET",
             url |-> <<xrayProtocol, "://">> \o Interpolate(xo.xrayBaseUrl)
                     \o <<"/api/2/myself">>,
             json |-> <<>>]
       ELSE [state |-> "pending", method |-> "POST",
             url |-> client.prefixUrl \o <<"/authenticate">>,
             json |-> <<"client_id">> \o Interpolate(xo.username)
                      \o <<"client_secret">> \o Interpolate(xo.password)]

\* the header built from the class's token field, which nothing assigns
HeaderFromTokenField(xo, ok, body, current) ==
    IF xo.xrayServer \/ ~ok THEN current ELSE <<"Bearer ">> \o Interpolate("")

\* the header installed whether or not the request succeeded
HeaderIgnoringFailure(xo, ok, body, current) ==
    IF xo.xrayServer THEN current
    ELSE <<"Bearer ">> \o Interpolate(IF ok THEN body ELSE Undefined)

\* the Authorization default header after auth()'s request settled: a rejected
\* await skips the rest of the method
HeaderAfterAuth(xo, ok, body, current) ==
    IF xo.xrayServer \/ ~ok THEN current ELSE <<"Bearer ">> \o Interpolate(body)

\* the registered secrets after auth()'s request settled
SecretsAfterAuth(xo, ok, body, current) ==
    IF xo.xrayServer \/ ~ok THEN current ELSE current \cup {body}

AuthStart ==
    /\ authCall.state = "idle"
    /\ nAuths < MaxAuths
    /\ authCall' = AuthRequest(xrayOptions, gotClient)
    /\ nAuths' = nAuths + 1
    /\ UNCHANGED <<xrayOptions, xrayImportOptions, heap, searchParams, gotClient, secrets,
                   warnings, authResult, authToken, importCall, importResult, nUpdates,
                   nImports, nMerges, suppliedJson, firstMerge>>

\* the request resolved (2xx) with the given body
AuthSucceed(body) ==
    /\ authCall.state = "pending"
    /\ gotClient' = [gotClient EXCEPT
                        !.Authorization = HeaderAfterAuth(xrayOptions, TRUE, body, @)]
    /\ secrets' = SecretsAfterAuth(xrayOptions, TRUE, body, secrets)
    /\ authToken' = IF xrayOptions.xrayServer THEN authToken ELSE body
    /\ authResult' = "ok"
    /\ authCall' = IdleAuth
    /\ UNCHANGED <<xrayOptions, xrayImportOptions, heap, searchParams, warnings, importCall,
                   importResult, nUpdates, nAuths, nImports, nMerges, suppliedJson,
                   firstMerge>>

\* the request rejected (non-2xx, network failure): auth() rethrows
AuthFail ==
    /\ authCall.state = "pending"
    /\ gotClient' = [gotClient EXCEPT
                        !.Authorization = HeaderAfterAuth(xrayOptions, FALSE, Undefined, @)]
    /\ secrets' = SecretsAfterAuth(xrayOptions, FALSE, Undefined, secrets)
    /\ authResult' = "error"
    /\ authCall' = IdleAuth
    /\ UNCHANGED <<xrayOptions, xrayImportOptions, heap, searchParams, warnings, authToken,
                   importCall, importResult, nUpdates, nAuths, nImports, nMerges,
                   suppliedJson, firstMerge>>

\* ------------------------------------------------- import
\* what held when the call began
Seen(opts) ==
    [seenOptions |-> [testExecKey |-> opts.testExecKey,
                      descriptor |-> opts.testExecutionJson.present,
                      testFormat |-> opts.testFormat],
     seenParams |-> heap[searchParams], seenAuth |-> authResult, seenToken |-> authToken]

\* the multipart request: form parts info, results, testInfo
MultipartRequest(opts, merged, client, data) ==
    [state |-> "pending", path |-> "multipart",
     endpoint |-> MultipartEndpoint(FormatSubpath(opts)),
     searchParams |-> NoRef, contentType |-> "multipart/form-data", body |-> "",
     info |-> JSONstringify(merged), results |-> data,
     testInfo |-> {<<"fields", "{}">>, <<"fields.project", "{}">>,
                   <<"fields.project.key", opts.projectKey>>},
     timeout |-> client.timeout, Authorization |-> client.Authorization,
     username |-> client.username, password |-> client.password]

\* the raw request: the body with this.searchParams and a 60 s timeout
RawRequest(opts, client, data) ==
    [state |-> "pending", path |-> "raw",
     endpoint |-> RawEndpoint(FormatSubpath(opts)),
     searchParams |-> searchParams, contentType |-> "text/xml", body |-> data,
     info |-> {}, results |-> "", testInfo |-> {},
     timeout |-> ImportTimeout, Authorization |-> client.Authorization,
     username |-> client.username, password |-> client.password]

\* import(data) up to its await
ImportStart(data) ==
    /\ importCall.state = "idle"
    /\ nImports < MaxImports
    /\ nImports' = nImports + 1
    /\ IF UseMultipart(xrayImportOptions)
          THEN LET merged == UpdateTestExecJson(xrayImportOptions,
                                                xrayImportOptions.testExecutionJson)
               IN  /\ xrayImportOptions' =
                          [xrayImportOptions EXCEPT !.testExecutionJson = merged]
                   /\ importCall' = MultipartRequest(xrayImportOptions, merged, gotClient, data)
                                    @@ Seen(xrayImportOptions)
                   /\ nMerges' = nMerges + 1
                   /\ firstMerge' = IF nMerges = 0 THEN merged ELSE firstMerge
          ELSE /\ importCall' = RawRequest(xrayImportOptions, gotClient, data)
                                @@ Seen(xrayImportOptions)
               /\ UNCHANGED <<xrayImportOptions, nMerges, firstMerge>>
    /\ UNCHANGED <<xrayOptions, heap, searchParams, gotClient, secrets, warnings, authCall,
                   authResult, authToken, importResult, nUpdates, nAuths, suppliedJson>>

\* try { return importResponse.body.key }: reading .key of null throws, reading
\* it of any other parsed body does not
KeyReadThrows(body) == body.isNull

ImportValue(body) == IF KeyReadThrows(body) THEN "" ELSE body.key

\* the warning of the catch block: JSON.stringify(body) is "null" on the multipart
\* path; on the raw path a null body makes it JSON.stringify(body || response),
\* the whole response object
ImportWarning(path, body) ==
    <<"Response did not match expected format: ",
      IF path = "multipart" THEN "null" ELSE "response">>

\* the objects still referred to once the suspended request is gone
Collect == [o \in ObjIds |-> IF o = searchParams THEN heap[o] ELSE NoObject]

\* the request resolved with the given parsed body
ImportRespond(body) ==
    /\ importCall.state = "pending"
    /\ importResult' = [kind |-> "returned", value |-> ImportValue(body),
                        path |-> importCall.path, body |-> body]
    /\ warnings' = IF KeyReadThrows(body)
                      THEN warnings \cup {ImportWarning(importCall.path, body)}
                      ELSE warnings
    /\ importCall' = IdleImport
    /\ heap' = Collect
    /\ UNCHANGED <<xrayOptions, xrayImportOptions, searchParams, gotClient, secrets,
                   authCall, authResult, authToken, nUpdates, nAuths, nImports, nMerges,
                   suppliedJson, firstMerge>>

\* the request rejected: import() rethrows
ImportFail ==
    /\ importCall.state = "pending"
    /\ importResult' = [NoResult EXCEPT !.kind = "threw", !.path = importCall.path]
    /\ importCall' = IdleImport
    /\ heap' = Collect
    /\ UNCHANGED <<xrayOptions, xrayImportOptions, searchParams, gotClient, secrets,
                   warnings, authCall, authResult, authToken, nUpdates, nAuths, nImports,
                   nMerges, suppliedJson, firstMerge>>

\* ------------------------------------------------- the client
Next ==
    \/ \E k \in ExecKeys : UpdateTestExecKey(k)
    \/ AuthStart
    \/ \E t \in Tokens : AuthSucceed(t)
    \/ AuthFail
    \/ \E data \in Data : ImportStart(data)
    \/ \E body \in Bodies : ImportRespond(body)
    \/ ImportFail

Spec == Init /\ [][Next]_vars

\* ------------------------------------------------- the metadata builders alone
\* a direct call of createSearchParams()
CallCreateSearchParams ==
    /\ CreateSearchParams(xrayImportOptions)
    /\ UNCHANGED <<xrayOptions, xrayImportOptions, gotClient, secrets, warnings, authCall,
                   authResult, authToken, importCall, importResult, nUpdates, nAuths,
                   nImports, nMerges, suppliedJson, firstMerge>>

\* a direct call of updateTestExecJson(xrayImportOptions.testExecutionJson)
CallUpdateTestExecJson ==
    /\ xrayImportOptions.testExecutionJson.present
    /\ nMerges < MaxMerges
    /\ LET merged == UpdateTestExecJson(xrayImportOptions,
                                        xrayImportOptions.testExecutionJson)
       IN  /\ xrayImportOptions' = [xrayImportOptions EXCEPT !.testExecutionJson = merged]
           /\ firstMerge' = IF nMerges = 0 THEN merged ELSE firstMerge
    /\ nMerges' = nMerges + 1
    /\ UNCHANGED <<xrayOptions, heap, searchParams, gotClient, secrets, warnings, authCall,
                   authResult, authToken, importCall, importResult, nUpdates, nAuths,
                   nImports, suppliedJson>>

InitMeta ==
    \E pk \in ProjectKeys, ek \in OptValues, pl \in OptValues, env \in OptValues,
       rev \in OptValues, fix \in OptValues, json \in Descriptors :
        Constructed([xrayServer |-> FALSE, xrayBaseUrl |-> "jira.example.org",
                     username |-> "user", password |-> "pw"],
                    Options(pk, ek, pl, env, rev, fix, "junit", json))

NextMeta == CallCreateSearchParams \/ CallUpdateTestExecJson

SpecMeta == InitMeta /\ [][NextMeta]_vars

\* ------------------------------------------------- properties
Pending == importCall.state = "pending"

\* the names of the entries of a URLSearchParams object, in order
Names(params) == [i \in 1..Len(params) |-> params[i].name]

\* position of a name in the fixed order projectKey, testExecKey, ..., fixVersion
Position(name) ==
    IF name = "projectKey" THEN 0
    ELSE CHOOSE i \in 1..Len(OptionNames) : OptionNames[i] = name

\* C1: every import() call in flight took the multipart path exactly when, at
\* the moment of the call, a descriptor was present and testExecKey was absent
\* or empty; every other call took the raw path.
PathSelection ==
    Pending =>
        /\ importCall.path \in {"multipart", "raw"}
        /\ importCall.path = "multipart"
             <=> (importCall.seenOptions.descriptor
                  /\ importCall.seenOptions.testExecKey \in {Undefined, ""})

PathSelectionWitness ==
    /\ Pending /\ nUpdates >= 1
    /\ importCall.path = "multipart"
    /\ importCall.seenOptions.testExecKey = ""

\* C2: a finished import() returned the key of a body that has one, and
\* otherwise returned the empty string and emitted the warning; its result is
\* never anything but a key or the empty string.
ResponseNormalized ==
    importResult.kind = "returned" =>
        /\ importResult.value # Undefined
        /\ IF ~importResult.body.isNull /\ importResult.body.hasKey
              THEN importResult.value = importResult.body.key
              ELSE /\ importResult.value = ""
                   /\ \E w \in warnings : w[1] = "Response did not match expected format: "

\* C3: the stored query parameters start with projectKey, keep the fixed field
\* order, and hold an optional field exactly when its value in the import
\* context is non-empty.
SearchParamsShape ==
    LET params == heap[searchParams]
        opts == xrayImportOptions
    IN  /\ Len(params) >= 1
        /\ params[1] = [name |-> "projectKey", value |-> opts.projectKey]
        /\ \A i \in 1..Len(params), j \in 1..Len(params) :
               i < j => Position(params[i].name) < Position(params[j].name)
        /\ \A k \in 1..Len(OptionNames) :
               LET n == OptionNames[k]
               IN  /\ (\E i \in 1..Len(params) : params[i].name = n)
                        <=> opts[n] \notin {Undefined, ""}
                   /\ \A i \in 1..Len(params) :
                        params[i].name = n => params[i].value = opts[n]

SearchParamsShapeWitness ==
    /\ xrayImportOptions.testExecKey = ""
    /\ xrayImportOptions.testPlanKey = Undefined
    /\ xrayImportOptions.testEnvironments = "v1"
    /\ xrayImportOptions.revision = ""
    /\ xrayImportOptions.fixVersion = "v1"
    /\ Names(heap[searchParams]) = <<"projectKey", "testEnvironments", "fixVersion">>
    /\ searchParams # "o1"

\* C4: after construction and after any updateTestExecKey calls the stored
\* query parameters are a fresh build of the current import context: the
\* current testExecKey when non-empty, no testExecKey entry otherwise.
SearchParamsFresh ==
    LET params == heap[searchParams]
        key == xrayImportOptions.testExecKey
    IN  /\ params = BuildSearchParams(xrayImportOptions)
        /\ \A i \in 1..Len(params) :
               params[i].name = "testExecKey" => (params[i].value = key /\ key # "")
        /\ key \notin {Undefined, ""}
             => \E i \in 1..Len(params) : params[i] = [name |-> "testExecKey", value |-> key]

SearchParamsFreshWitness ==
    /\ Pending /\ importCall.path = "raw"
    /\ importCall.seenOptions.testExecKey = "EXEC-1"
    /\ nUpdates = 2
    /\ xrayImportOptions.testExecKey = ""
    /\ "testExecKey" \notin {Names(heap[searchParams])[i] : i \in 1..Len(heap[searchParams])}

\* C5: after updateTestExecJson the descriptor has fields, fields.project and
\* xrayFields, its fields.project.key is the context's projectKey, and every
\* non-empty context value is set in xrayFields.
MergeForcesProject ==
    nMerges >= 1 =>
        LET d == xrayImportOptions.testExecutionJson
        IN  /\ d.hasFields /\ d.hasProject /\ d.hasXrayFields
            /\ d.key = xrayImportOptions.projectKey
            /\ \A k \in 1..Len(OptionNames) :
                   xrayImportOptions[OptionNames[k]] \notin {Undefined, ""}
                     => d.xrayFields[OptionNames[k]] = xrayImportOptions[OptionNames[k]]

MergeForcesProjectWitness ==
    /\ nMerges = 1
    /\ suppliedJson.key = "OTHER" /\ ~suppliedJson.hasXrayFields
    /\ xrayImportOptions.projectKey = "PRJ"
    /\ xrayImportOptions.testExecutionJson.key = "PRJ"
    /\ xrayImportOptions.testExecKey = "v1"

\* C6: with the import context unchanged, every further updateTestExecJson
\* leaves the descriptor as the first one left it.
MergeIdempotent ==
    nMerges >= 1 => xrayImportOptions.testExecutionJson = firstMerge

MergeIdempotentWitness ==
    /\ nMerges >= 2
    /\ ~suppliedJson.hasFields /\ ~suppliedJson.hasXrayFields
    /\ xrayImportOptions.testExecutionJson = firstMerge
    /\ firstMerge # suppliedJson

\* C7: the endpoint of a request is /import/execution/ for format "xray" and
\* /import/execution/F for any other format F on the raw path, and that same
\* endpoint followed by /multipart on the multipart path.
EndpointDerivation ==
    Pending =>
        LET F == importCall.seenOptions.testFormat
            endpoint == IF F = "xray" THEN <<"/import/execution/">>
                        ELSE <<"/import/execution/", F>>
        IN  importCall.endpoint = IF importCall.path = "raw" THEN endpoint
                                  ELSE endpoint \o <<"/multipart">>

EndpointDerivationWitness ==
    /\ Pending /\ importCall.path = "multipart"
    /\ importCall.seenOptions.testFormat = "xray"
    /\ importCall.endpoint = <<"/import/execution/", "/multipart">>

\* C8: in cloud mode, once an auth() succeeded with token T, T is a registered
\* secret and the Bearer T header is installed, and every import() request
\* issued after that carries Bearer T; in server mode no header is installed
\* and the basic credentials stay as configured.
AuthInstallsBearer ==
    /\ (~xrayOptions.xrayServer /\ authResult = "ok") => authToken # Undefined
    /\ authToken # Undefined
         => /\ authToken \in secrets
            /\ gotClient.Authorization = <<"Bearer ", authToken>>
    /\ (Pending /\ importCall.seenToken # Undefined)
         => importCall.Authorization = <<"Bearer ", importCall.seenToken>>
    /\ xrayOptions.xrayServer
         => /\ gotClient.Authorization = <<>>
            /\ secrets = {}
            /\ gotClient.username = xrayOptions.username
            /\ gotClient.password = xrayOptions.password

AuthInstallsBearerWitness ==
    /\ ~xrayOptions.xrayServer
    /\ authResult = "ok" /\ authToken = "abc123"
    /\ "abc123" \in secrets
    /\ Pending /\ importCall.path = "multipart"
    /\ importCall.seenAuth = "ok"
    /\ importCall.Authorization = <<"Bearer ", "abc123">>

\* C9: a failing auth() changes nothing of the client (no header, no secret,
\* query parameters untouched), a client no auth() succeeded on has no header
\* and no secret, and import() can still be called and sends its request
\* without the header.
AuthFailureLeavesState ==
    /\ [][(authCall.state = "pending" /\ authCall'.state = "idle" /\ authResult' = "error")
            => /\ gotClient' = gotClient
               /\ secrets' = secrets
               /\ authToken' = authToken
               /\ searchParams' = searchParams
               /\ heap' = heap
               /\ xrayImportOptions' = xrayImportOptions]_vars
    /\ [](authToken = Undefined => (gotClient.Authorization = <<>> /\ secrets = {}))
    /\ []((Pending /\ importCall.seenToken = Undefined) => importCall.Authorization = <<>>)
    /\ []((authResult = "error" /\ ~Pending /\ nImports < MaxImports)
            => ENABLED (\E data \in Data : ImportStart(data)))

AuthFailureLeavesStateWitness ==
    /\ ~xrayOptions.xrayServer
    /\ Pending
    /\ importCall.seenAuth = "error" /\ importCall.seenToken = Undefined
    /\ importCall.Authorization = <<>>
    /\ secrets = {}

\* C10: the query parameters of a raw request in flight are those that existed
\* when its import() call began, whatever updateTestExecKey did since.
InFlightParamsSnapshot ==
    (Pending /\ importCall.path = "raw") =>
        /\ heap[importCall.searchParams] = importCall.seenParams
        /\ \A i \in 1..Len(importCall.seenParams) :
               importCall.seenParams[i].name = "testExecKey"
                 => importCall.seenParams[i].value = importCall.seenOptions.testExecKey

InFlightParamsSnapshotWitness ==
    /\ Pending /\ importCall.path = "raw"
    /\ nUpdates >= 1
    /\ importCall.seenOptions.testExecKey = "EXEC-1"
    /\ xrayImportOptions.testExecKey = "EXEC-2"
    /\ heap[importCall.searchParams] # heap[searchParams]

====
